---- MODULE Spec2Model ----
(***************************************************************************)
(* The ledger of the trip expense tracker (src/main.py): the roster, the   *)
(* expense list, balance calculation and greedy settlement.                *)
(*                                                                         *)
(* Text is a sequence of one-character strings, so that str.strip() and    *)
(* float() are computed rather than assumed.  Money is an integer number   *)
(* of cents; a balance is an integer number of 1/Unit cents, where Unit is *)
(* divisible by every possible len(paid_by) and len(split_among), so every *)
(* share amount / len(...) is represented exactly.  The model therefore    *)
(* computes with exact rationals where the program computes with IEEE      *)
(* doubles; the rounding error of the doubles (below 1e-12 here) is not    *)
(* represented, and the amounts drawn keep every compared value away from  *)
(* the points where that error would decide a comparison.                  *)
(***************************************************************************)
EXTENDS Integers, Sequences, FiniteSets, TLC

VARIABLES participants, expenses, data_file, ret

vars == <<participants, expenses, data_file, ret>>

---------------------------------------------------------------------------
(* Bounds and inputs *)

\* The expense list is capped at this length (the program has no cap).
MaxExpenses == 2

\* What the user types into the participant field.
NameTexts ==
  { <<>>, <<" ">>, <<"A">>, <<" ", "B">>, <<"B", " ">> }

\* The roster of the ledgers that the specification of the two calculations
\* starts from: one participant more than NameTexts gives, which puts the
\* interleavings of all operations out of reach of an exhaustive search.
LedgerRoster == << <<"A">>, <<"B">>, <<"C">> >>

\* The roster of the ledgers on which the sweep of get_settlements is
\* checked with two debtors and two creditors.
SweepRoster == << <<"A">>, <<"B">>, <<"C">>, <<"D">> >>

\* What the user fills into the expense form (the category is one the spinner
\* offers), and when (datetime.now()).  Every amount is a multiple of 0.04:
\* then no balance, debt or credit is exactly 0.01 and no settlement amount
\* ends in half a cent, the two places where the rounding error of the
\* doubles, which the model does not represent, would decide the outcome.
Forms ==
  { [description |-> <<"T", "a", "x", "i">>, amount |-> <<"1", "0", "0">>,
     category |-> "Transportation", now |-> "2026-01-01 10:00"],
    [description |-> <<" ", "T", "e", "a">>, amount |-> <<" ", "0", ".", "0", "4">>,
     category |-> "Food", now |-> "2026-01-01 10:05"],
    [description |-> <<"R", "e", "f">>, amount |-> <<"-", ".", "1", "2">>,
     category |-> "General", now |-> "2026-01-02 09:00"],
    [description |-> <<"G", "i", "f", "t">>, amount |-> <<"0">>,
     category |-> "General", now |-> "2026-01-02 09:00"],
    [description |-> <<" ">>, amount |-> <<"1">>,
     category |-> "General", now |-> "2026-01-03 08:00"],
    [description |-> <<"B", "u", "s">>, amount |-> <<" ">>,
     category |-> "General", now |-> "2026-01-03 08:00"],
    [description |-> <<"B", "u", "s">>, amount |-> <<"1", ".", "2", ".", "3">>,
     category |-> "General", now |-> "2026-01-03 08:00"] }

\* Identifiers a caller may pass to remove_expense.
ExpenseIds == 1 .. (MaxExpenses + 1)

---------------------------------------------------------------------------
(* Text: str.strip() and float() *)

IsSpace(c) == c = " "

RECURSIVE LStrip(_)
LStrip(s) ==
  IF s # <<>> /\ IsSpace(Head(s)) THEN LStrip(Tail(s)) ELSE s

RECURSIVE RStrip(_)
RStrip(s) ==
  IF s # <<>> /\ IsSpace(s[Len(s)]) THEN RStrip(SubSeq(s, 1, Len(s) - 1)) ELSE s

\* str.strip(): leading and trailing whitespace removed.
Strip(s) == RStrip(LStrip(s))

Digits == {"0", "1", "2", "3", "4", "5", "6", "7", "8", "9"}

DigitVal(c) ==
  CASE c = "0" -> 0 [] c = "1" -> 1 [] c = "2" -> 2 [] c = "3" -> 3
    [] c = "4" -> 4 [] c = "5" -> 5 [] c = "6" -> 6 [] c = "7" -> 7
    [] c = "8" -> 8 [] c = "9" -> 9

RECURSIVE DigitsVal(_)
DigitsVal(s) ==
  IF s = <<>> THEN 0 ELSE 10 * DigitsVal(SubSeq(s, 1, Len(s) - 1)) + DigitVal(s[Len(s)])

AllDigits(s) == \A i \in 1 .. Len(s) : s[i] \in Digits

\* The index of the first "." of s, or 0.
DotAt(s) ==
  IF \E i \in 1 .. Len(s) : s[i] = "."
  THEN CHOOSE i \in 1 .. Len(s) : s[i] = "." /\ \A j \in 1 .. (i - 1) : s[j] # "."
  ELSE 0

\* float() of an unsigned decimal literal "ddd", "ddd.", ".dd" or "ddd.dd" with
\* at most two decimals, as a number of cents; "ValueError" for anything else
\* among the inputs the model draws.
ParseUnsigned(s) ==
  LET d == DotAt(s)
      ip == IF d = 0 THEN s ELSE SubSeq(s, 1, d - 1)
      fp == IF d = 0 THEN <<>> ELSE SubSeq(s, d + 1, Len(s))
  IN IF /\ AllDigits(ip)
        /\ AllDigits(fp)
        /\ Len(ip) + Len(fp) > 0
        /\ Len(fp) <= 2
     THEN [raised |-> "", value |->
             100 * DigitsVal(ip)
               + (IF Len(fp) = 1 THEN 10 * DigitsVal(fp) ELSE DigitsVal(fp))]
     ELSE [raised |-> "ValueError", value |-> 0]

\* float(text): surrounding whitespace ignored, an optional sign.
ParseFloat(text) ==
  LET s == Strip(text) IN
  IF s # <<>> /\ Head(s) \in {"-", "+"}
  THEN LET r == ParseUnsigned(Tail(s)) IN
       IF r.raised = "" /\ Head(s) = "-" THEN [r EXCEPT !.value = 0 - r.value] ELSE r
  ELSE ParseUnsigned(s)

---------------------------------------------------------------------------
(* Lists *)

Contains(seq, x) == \E i \in 1 .. Len(seq) : seq[i] = x

\* list.remove(x): the first occurrence of x dropped.
RECURSIVE ListRemove(_, _)
ListRemove(seq, x) ==
  IF seq = <<>> THEN <<>>
  ELSE IF Head(seq) = x THEN Tail(seq)
  ELSE <<Head(seq)>> \o ListRemove(Tail(seq), x)

\* [p for p, btn in checkboxes.items() if btn.selected]: the selected names in
\* the order of the checkboxes, which is the roster's.
RECURSIVE Selected(_, _)
Selected(roster, chosen) ==
  IF roster = <<>> THEN <<>>
  ELSE (IF Head(roster) \in chosen THEN <<Head(roster)>> ELSE <<>>)
         \o Selected(Tail(roster), chosen)

Range(seq) == {seq[i] : i \in 1 .. Len(seq)}

---------------------------------------------------------------------------
(* Units *)

\* Every name the participant field can produce.
Names == {Strip(t) : t \in NameTexts} \ {<<>>}

RECURSIVE Gcd(_, _)
Gcd(a, b) == IF b = 0 THEN a ELSE Gcd(b, a % b)

RECURSIVE LcmUpTo(_)
LcmUpTo(n) ==
  IF n <= 1 THEN 1 ELSE LET l == LcmUpTo(n - 1) IN (l * n) \div Gcd(l, n)

\* A balance is counted in 1/Unit cents: no list of names is longer than the
\* roster, and no roster of the model is longer than SweepRoster.
Unit == LcmUpTo(Len(SweepRoster))

\* 0.01, the threshold of get_settlements, in balance units.
Threshold == Unit

\* amount / n of the program: amount in cents, the quotient in balance units.
Share(amount, n) == (amount * Unit) \div n

\* round(x, 2): x in balance units, the result in cents; a tie goes to the
\* even cent.
Round2(x) ==
  LET q == x \div Unit
      r == x % Unit
  IN IF 2 * r < Unit THEN q
     ELSE IF 2 * r > Unit THEN q + 1
     ELSE IF q % 2 = 0 THEN q ELSE q + 1

---------------------------------------------------------------------------
(* TripData: the roster and the expense list *)

\* add_participant without the test for a name already in the roster.
add_participant_any(ps, name) ==
  IF name # <<>>
  THEN [participants |-> Append(ps, name), ret |-> TRUE]
  ELSE [participants |-> ps, ret |-> FALSE]

\* TripData.add_participant
add_participant(ps, name) ==
  IF name # <<>> /\ ~Contains(ps, name)
  THEN [participants |-> Append(ps, name), ret |-> TRUE]
  ELSE [participants |-> ps, ret |-> FALSE]

\* StripName with the name left in split_among.
StripNamePaidOnly(expense, name) ==
  [expense EXCEPT
     !.paid_by = IF Contains(@, name) THEN ListRemove(@, name) ELSE @]

\* The loop body of remove_participant on one expense.
StripName(expense, name) ==
  [expense EXCEPT
     !.paid_by = IF Contains(@, name) THEN ListRemove(@, name) ELSE @,
     !.split_among = IF Contains(@, name) THEN ListRemove(@, name) ELSE @]

\* remove_participant with the expenses left as they are.
remove_participant_roster_only(ps, es, name) ==
  IF Contains(ps, name)
  THEN [participants |-> ListRemove(ps, name), expenses |-> es, ret |-> TRUE]
  ELSE [participants |-> ps, expenses |-> es, ret |-> FALSE]

\* TripData.remove_participant
remove_participant(ps, es, name) ==
  IF Contains(ps, name)
  THEN [participants |-> ListRemove(ps, name),
        expenses |-> [i \in 1 .. Len(es) |-> StripName(es[i], name)],
        ret |-> TRUE]
  ELSE [participants |-> ps, expenses |-> es, ret |-> FALSE]

\* The identifier add_expense gives the next expense.
NextId(es) == Len(es) + 1

\* TripData.add_expense: the expense it builds, appends and returns.
add_expense(es, description, amount, paid_by, split_among, category, now) ==
  LET expense == [id |-> NextId(es),
                  description |-> description,
                  amount |-> amount,
                  paid_by |-> paid_by,
                  split_among |-> split_among,
                  category |-> category,
                  date |-> now]
  IN [expenses |-> Append(es, expense), ret |-> expense]

\* TripData.remove_expense
remove_expense(es, expense_id) == SelectSeq(es, LAMBDA e : e.id # expense_id)

\* TripData.save_data: what json.dump writes (trip_name is not modelled).
save_data(ps, es) == [exists |-> TRUE, participants |-> ps, expenses |-> es]

\* TripData.load_data: the state read back at construction.
load_data(file) ==
  IF file.exists
  THEN [participants |-> file.participants, expenses |-> file.expenses]
  ELSE [participants |-> <<>>, expenses |-> <<>>]

---------------------------------------------------------------------------
(* TripData.calculate_balances *)

\* A call that raised: the exception's name, and no value.
Raise(exception) == [raised |-> exception, value |-> <<>>]

\* A call that returned.
Return(value) == [raised |-> "", value |-> value]

\* {person: 0.0 for person in self.participants}
ZeroBalances(ps) == [p \in Range(ps) |-> 0]

\* for name in names: balances[name] += delta; a name that is no key raises.
RECURSIVE AddToEach(_, _, _)
AddToEach(r, names, delta) ==
  IF r.raised # "" \/ names = <<>> THEN r
  ELSE IF Head(names) \notin DOMAIN r.value THEN Raise("KeyError")
  ELSE AddToEach(Return([r.value EXCEPT ![Head(names)] = @ + delta]),
                 Tail(names), delta)

\* AddExpenseShares with each payer credited amount / len(split_among).
AddExpenseSharesOneDivisor(r, expense) ==
  IF r.raised # "" THEN r
  ELSE IF Len(expense.split_among) = 0 THEN Raise("ZeroDivisionError")
  ELSE LET amount_per_person == Share(expense.amount, Len(expense.split_among))
       IN AddToEach(AddToEach(r, expense.paid_by, amount_per_person),
                    expense.split_among, 0 - amount_per_person)

\* The body of the loop over the expenses: the division by len(split_among)
\* comes first and raises on an empty list.
AddExpenseShares(r, expense) ==
  IF r.raised # "" THEN r
  ELSE IF Len(expense.split_among) = 0 THEN Raise("ZeroDivisionError")
  ELSE LET amount_per_person == Share(expense.amount, Len(expense.split_among))
           paid == IF expense.paid_by = <<>> THEN r
                   ELSE AddToEach(r, expense.paid_by,
                                  Share(expense.amount, Len(expense.paid_by)))
       IN AddToEach(paid, expense.split_among, 0 - amount_per_person)

RECURSIVE AccumulateFrom(_, _, _)
AccumulateFrom(r, es, i) ==
  IF i > Len(es) THEN r ELSE AccumulateFrom(AddExpenseShares(r, es[i]), es, i + 1)

calculate_balances(ps, es) == AccumulateFrom(Return(ZeroBalances(ps)), es, 1)

---------------------------------------------------------------------------
(* TripData.get_settlements *)

\* The keys of the balances dict in insertion order: the roster, a repeated
\* name keeping its first place.
RECURSIVE DictKeys(_)
DictKeys(ps) ==
  IF ps = <<>> THEN <<>>
  ELSE LET front == DictKeys(SubSeq(ps, 1, Len(ps) - 1)) IN
       IF Contains(front, ps[Len(ps)]) THEN front ELSE Append(front, ps[Len(ps)])

\* Creditors with the last key of the dict first.
RECURSIVE CreditorsReversed(_, _)
CreditorsReversed(keys, balances) ==
  IF keys = <<>> THEN <<>>
  ELSE CreditorsReversed(Tail(keys), balances)
         \o (IF balances[Head(keys)] > Threshold
             THEN <<[name |-> Head(keys), amount |-> balances[Head(keys)]]>>
             ELSE <<>>)

\* [(person, amount) for person, amount in balances.items() if amount > 0.01]
RECURSIVE Creditors(_, _)
Creditors(keys, balances) ==
  IF keys = <<>> THEN <<>>
  ELSE (IF balances[Head(keys)] > Threshold
        THEN <<[name |-> Head(keys), amount |-> balances[Head(keys)]]>>
        ELSE <<>>) \o Creditors(Tail(keys), balances)

\* [(person, -amount) for person, amount in balances.items() if amount < -0.01]
RECURSIVE Debtors(_, _)
Debtors(keys, balances) ==
  IF keys = <<>> THEN <<>>
  ELSE (IF balances[Head(keys)] < 0 - Threshold
        THEN <<[name |-> Head(keys), amount |-> 0 - balances[Head(keys)]]>>
        ELSE <<>>) \o Debtors(Tail(keys), balances)

Min(a, b) == IF a <= b THEN a ELSE b

\* PayFrom with the creditor's credit left as it was after a settlement.
RECURSIVE PayFromFullCredit(_, _, _, _, _)
PayFromFullCredit(creditors, i, debtor_name, remaining_debt, settlements) ==
  IF i > Len(creditors) \/ remaining_debt <= Threshold
  THEN [creditors |-> creditors, settlements |-> settlements]
  ELSE LET settlement_amount == Min(remaining_debt, creditors[i].amount) IN
       IF settlement_amount > Threshold
       THEN PayFromFullCredit(creditors, i + 1, debtor_name,
                              remaining_debt - settlement_amount,
                              Append(settlements, [from |-> debtor_name,
                                                   to |-> creditors[i].name,
                                                   amount |-> Round2(settlement_amount)]))
       ELSE PayFromFullCredit(creditors, i + 1, debtor_name, remaining_debt,
                              settlements)

\* PayFrom with half of min(remaining_debt, credit_amount) settled each time.
RECURSIVE PayFromHalf(_, _, _, _, _)
PayFromHalf(creditors, i, debtor_name, remaining_debt, settlements) ==
  IF i > Len(creditors) \/ remaining_debt <= Threshold
  THEN [creditors |-> creditors, settlements |-> settlements]
  ELSE LET settlement_amount == Min(remaining_debt, creditors[i].amount) \div 2 IN
       IF settlement_amount > Threshold
       THEN PayFromHalf([creditors EXCEPT ![i].amount = @ - settlement_amount],
                        i + 1, debtor_name, remaining_debt - settlement_amount,
                        Append(settlements, [from |-> debtor_name,
                                             to |-> creditors[i].name,
                                             amount |-> Round2(settlement_amount)]))
       ELSE PayFromHalf(creditors, i + 1, debtor_name, remaining_debt, settlements)

\* The loop over the creditors for one debtor, from the i-th creditor on.
RECURSIVE PayFrom(_, _, _, _, _)
PayFrom(creditors, i, debtor_name, remaining_debt, settlements) ==
  IF i > Len(creditors) \/ remaining_debt <= Threshold
  THEN [creditors |-> creditors, settlements |-> settlements]
  ELSE LET settlement_amount == Min(remaining_debt, creditors[i].amount) IN
       IF settlement_amount > Threshold
       THEN PayFrom([creditors EXCEPT ![i].amount = @ - settlement_amount],
                    i + 1, debtor_name, remaining_debt - settlement_amount,
                    Append(settlements, [from |-> debtor_name,
                                         to |-> creditors[i].name,
                                         amount |-> Round2(settlement_amount)]))
       ELSE PayFrom(creditors, i + 1, debtor_name, remaining_debt, settlements)

\* SettleFrom with every debtor offered the creditors' full credit.
RECURSIVE SettleFromFullCredit(_, _, _, _)
SettleFromFullCredit(debtors, j, creditors, settlements) ==
  IF j > Len(debtors) THEN settlements
  ELSE LET paid == PayFrom(creditors, 1, debtors[j].name, debtors[j].amount,
                           settlements)
       IN SettleFromFullCredit(debtors, j + 1, creditors, paid.settlements)

\* The loop over the debtors, from the j-th on; the creditors list it was left
\* with by the debtors before.
RECURSIVE SettleFrom(_, _, _, _)
SettleFrom(debtors, j, creditors, settlements) ==
  IF j > Len(debtors) THEN settlements
  ELSE LET paid == PayFrom(creditors, 1, debtors[j].name, debtors[j].amount,
                           settlements)
       IN SettleFrom(debtors, j + 1, paid.creditors, paid.settlements)

get_settlements(ps, es) ==
  LET balances == calculate_balances(ps, es) IN
  IF balances.raised # "" THEN balances
  ELSE Return(SettleFrom(Debtors(DictKeys(ps), balances.value), 1,
                         Creditors(DictKeys(ps), balances.value), <<>>))

---------------------------------------------------------------------------
(* TripData.get_summary *)

\* total / n of the program, which raises when n is 0: total in cents, the
\* quotient in balance units.
Divide(total, n) ==
  IF n = 0 THEN Raise("ZeroDivisionError") ELSE Return(Share(total, n))

RECURSIVE SumAmounts(_, _)
\* sum(expense['amount'] for expense in self.expenses), from the i-th on.
SumAmounts(es, i) ==
  IF i > Len(es) THEN 0 ELSE es[i].amount + SumAmounts(es, i + 1)

\* The position of the key category in the dict totals, 0 when it is no key.
KeyAt(totals, category) ==
  IF \E k \in 1 .. Len(totals) : totals[k].category = category
  THEN CHOOSE k \in 1 .. Len(totals) : totals[k].category = category
  ELSE 0

\* AddCategory with the amount stored in place of the sum.
AddCategoryOverwrite(totals, expense) ==
  LET k == KeyAt(totals, expense.category)
  IN IF k = 0
     THEN Append(totals, [category |-> expense.category, total |-> expense.amount])
     ELSE [totals EXCEPT ![k].total = expense.amount]

\* category_totals[category] = category_totals.get(category, 0) + amount: the
\* dict as the list of its items, a new key at the end.
AddCategory(totals, expense) ==
  LET k == KeyAt(totals, expense.category)
  IN IF k = 0
     THEN Append(totals, [category |-> expense.category, total |-> 0 + expense.amount])
     ELSE [totals EXCEPT ![k].total = @ + expense.amount]

RECURSIVE CategoryTotalsFrom(_, _, _)
CategoryTotalsFrom(totals, es, i) ==
  IF i > Len(es) THEN totals
  ELSE CategoryTotalsFrom(AddCategory(totals, es[i]), es, i + 1)

\* TripData.get_summary: total_expenses and the category totals in cents,
\* cost_per_person in balance units.
get_summary(ps, es) ==
  LET total_expenses == SumAmounts(es, 1)
      cost_per_person == IF ps # <<>> THEN Divide(total_expenses, Len(ps))
                         ELSE Return(0)
  IN IF cost_per_person.raised # "" THEN cost_per_person
     ELSE Return([total_expenses |-> total_expenses,
                  cost_per_person |-> cost_per_person.value,
                  num_expenses |-> Len(es),
                  category_totals |-> CategoryTotalsFrom(<<>>, es, 1)])

---------------------------------------------------------------------------
(* The operations, as the screens call them *)

\* The state after TripData.__init__ on a device with no data file.
Init ==
  /\ participants = <<>>
  /\ expenses = <<>>
  /\ data_file = [exists |-> FALSE, participants |-> <<>>, expenses |-> <<>>]
  /\ ret = [op |-> "__init__", val |-> "None"]

\* MainScreen.add_participant: the text is stripped, and the roster saved
\* when the name was added.
AddParticipant(text) ==
  LET r == add_participant(participants, Strip(text)) IN
  /\ participants' = r.participants
  /\ UNCHANGED expenses
  /\ data_file' = IF r.ret THEN save_data(participants', expenses') ELSE data_file
  /\ ret' = [op |-> "add_participant", val |-> r.ret]

\* MainScreen.remove_participant
RemoveParticipant(name) ==
  LET r == remove_participant(participants, expenses, name) IN
  /\ participants' = r.participants
  /\ expenses' = r.expenses
  /\ data_file' = save_data(participants', expenses')
  /\ ret' = [op |-> "remove_participant", val |-> r.ret]

\* AddExpenseScreen.save_expense: the form is checked, then add_expense called
\* (which saves).  The check boxes are those of the roster.
SaveExpense(form, paid_sel, split_sel) ==
  LET description == Strip(form.description)
      amount_text == Strip(form.amount)
      amount == ParseFloat(amount_text)
      paid_by == Selected(participants, paid_sel)
      split_among == Selected(participants, split_sel)
      popup == IF description = <<>> \/ amount_text = <<>>
                 THEN "Please fill in description and amount"
               ELSE IF amount.raised # "" THEN "Please enter a valid amount"
               ELSE IF paid_by = <<>> THEN "Please select who paid for this expense"
               ELSE IF split_among = <<>>
                 THEN "Please select who to split this expense among"
               ELSE ""
      r == add_expense(expenses, description, amount.value, paid_by, split_among,
                       form.category, form.now)
  IN /\ Len(expenses) < MaxExpenses
     /\ UNCHANGED participants
     /\ IF popup # ""
        THEN /\ UNCHANGED <<expenses, data_file>>
             /\ ret' = [op |-> "save_expense", val |-> popup]
        ELSE /\ expenses' = r.expenses
             /\ data_file' = save_data(participants', expenses')
             /\ ret' = [op |-> "add_expense", val |-> r.ret]

\* ExpensesScreen.delete_expense
RemoveExpense(expense_id) ==
  /\ expenses' = remove_expense(expenses, expense_id)
  /\ UNCHANGED participants
  /\ data_file' = save_data(participants', expenses')
  /\ ret' = [op |-> "remove_expense", val |-> "None"]

\* CalculateBalances that first drops the expenses nobody shares, in place.
CalculateBalancesDropping ==
  /\ expenses' = SelectSeq(expenses, LAMBDA e : e.split_among # <<>>)
  /\ ret' = [op |-> "calculate_balances",
             val |-> calculate_balances(participants, expenses')]
  /\ UNCHANGED <<participants, data_file>>

\* A call of calculate_balances.
CalculateBalances ==
  /\ ret' = [op |-> "calculate_balances",
             val |-> calculate_balances(participants, expenses)]
  /\ UNCHANGED <<participants, expenses, data_file>>

\* A call of get_settlements.
GetSettlements ==
  /\ ret' = [op |-> "get_settlements",
             val |-> get_settlements(participants, expenses)]
  /\ UNCHANGED <<participants, expenses, data_file>>

\* A call of get_summary.
GetSummary ==
  /\ ret' = [op |-> "get_summary", val |-> get_summary(participants, expenses)]
  /\ UNCHANGED <<participants, expenses, data_file>>

\* The application is started again: TripData.__init__ reads the data file.
Restart ==
  LET r == load_data(data_file) IN
  /\ participants' = r.participants
  /\ expenses' = r.expenses
  /\ UNCHANGED data_file
  /\ ret' = [op |-> "__init__", val |-> "None"]

Next ==
  \/ \E text \in NameTexts : AddParticipant(text)
  \/ \E name \in Names : RemoveParticipant(name)
  \/ \E form \in Forms, paid_sel \in SUBSET Names, split_sel \in SUBSET Names :
       SaveExpense(form, paid_sel, split_sel)
  \/ \E expense_id \in ExpenseIds : RemoveExpense(expense_id)
  \/ CalculateBalances
  \/ GetSettlements
  \/ GetSummary
  \/ Restart

Spec == Init /\ [][Next]_vars

---------------------------------------------------------------------------
(* The calculations on ledgers of three participants *)

\* The forms that save_expense accepts.
AcceptedForms ==
  {form \in Forms :
     /\ Strip(form.description) # <<>>
     /\ Strip(form.amount) # <<>>
     /\ ParseFloat(Strip(form.amount)).raised = ""}

\* The lists of names that selecting check boxes and removing participants
\* leave in an expense of a roster: its names in its order, any of them gone.
SubLists(roster) == {Selected(roster, chosen) : chosen \in SUBSET Range(roster)}

\* The rosters: LedgerRoster after its first participants were added.
LedgerRosters == {SubSeq(LedgerRoster, 1, n) : n \in 0 .. Len(LedgerRoster)}

\* What add_expense builds for an accepted form and two lists of names,
\* before its identifier.
LedgerEntries(roster) ==
  { [id |-> 0,
     description |-> Strip(form.description),
     amount |-> ParseFloat(Strip(form.amount)).value,
     paid_by |-> paid_by,
     split_among |-> split_among,
     category |-> form.category,
     date |-> form.now] :
    form \in AcceptedForms, paid_by \in SubLists(roster),
    split_among \in SubLists(roster) }

\* An expense list of a roster: what add_expense appended, the i-th with
\* identifier i, each list of names as it is after any removals of
\* participants.
LedgerExpenses(pick) == [i \in DOMAIN pick |-> [pick[i] EXCEPT !.id = i]]

InitLedger ==
  /\ participants \in LedgerRosters
  /\ \E n \in 0 .. MaxExpenses :
       \E pick \in [1 .. n -> LedgerEntries(participants)] :
         expenses = LedgerExpenses(pick)
  /\ data_file = save_data(participants, expenses)
  /\ ret = [op |-> "__init__", val |-> "None"]

NextLedger ==
  \/ CalculateBalances
  \/ GetSettlements
  \/ GetSummary

SpecLedger == InitLedger /\ [][NextLedger]_vars

---------------------------------------------------------------------------
(* The sweep of get_settlements on ledgers of four participants *)

\* With four names a share can be a quarter of the amount: the entries whose
\* amount is a multiple of 0.08, which keep every balance, debt and credit off
\* 0.01 and every settlement amount off half a cent.
SweepEntries(roster) ==
  {entry \in LedgerEntries(roster) : entry.amount % 8 = 0}

InitSweep ==
  /\ participants = SweepRoster
  /\ \E n \in 0 .. MaxExpenses :
       \E pick \in [1 .. n -> SweepEntries(participants)] :
         expenses = LedgerExpenses(pick)
  /\ data_file = save_data(participants, expenses)
  /\ ret = [op |-> "__init__", val |-> "None"]

NextSweep == GetSettlements

SpecSweep == InitSweep /\ [][NextSweep]_vars

---------------------------------------------------------------------------
(* What the claims speak of *)

Abs(x) == IF x < 0 THEN 0 - x ELSE x

RECURSIVE SumOver(_, _)
\* The sum of f over the set S.
SumOver(f, S) ==
  IF S = {} THEN 0
  ELSE LET x == CHOOSE y \in S : TRUE IN f[x] + SumOver(f, S \ {x})

\* The balances of the present ledger, or the exception raised.
Balances == calculate_balances(participants, expenses)

\* The settlements of the present ledger, or the exception raised.
Settlements == get_settlements(participants, expenses)

\* The amounts, in cents, of the expenses that no payer is left of.
UnpaidTotal ==
  SumOver([i \in 1 .. Len(expenses) |->
             IF expenses[i].paid_by = <<>> THEN expenses[i].amount ELSE 0],
          1 .. Len(expenses))

\* C1: calculate_balances completes without a fault in every reachable state,
\* also when remove_participant has emptied an expense's paid_by or
\* split_among.
C1_NoFault == Balances.raised = ""

\* C2, as claimed: whenever calculate_balances returns, the balances of all
\* participants sum to within 0.01 of zero.
C2_Conservation ==
  Balances.raised = "" =>
    Abs(SumOver(Balances.value, DOMAIN Balances.value)) <= Threshold

\* C2, amended: whenever calculate_balances returns, the balances sum to
\* within 0.01 of minus the total amount of the expenses whose paid_by is
\* empty (so to within 0.01 of zero when every expense still has a payer).
C2_SumIsUnpaid ==
  Balances.raised = "" =>
    Abs(SumOver(Balances.value, DOMAIN Balances.value) + UnpaidTotal * Unit)
      <= Threshold

\* C2's case: calculate_balances has returned for a ledger with an expense
\* that lost its payers and whose balances do not sum to zero.
C2_Witness ==
  /\ ret.op = "calculate_balances"
  /\ ret.val.raised = ""
  /\ UnpaidTotal # 0
  /\ SumOver(ret.val.value, DOMAIN ret.val.value) # 0

\* The number of the settlements that name participant p.
SettlementsOf(settlements, p) ==
  Cardinality({k \in 1 .. Len(settlements) :
                 settlements[k].from = p \/ settlements[k].to = p})

\* The balance of p, in balance units, after every settlement is applied: what
\* p pays is added, what p receives is taken off.
Adjusted(balances, settlements, p) ==
  balances[p]
    + Unit * SumOver([k \in 1 .. Len(settlements) |->
                        IF settlements[k].from = p THEN settlements[k].amount ELSE 0],
                     1 .. Len(settlements))
    - Unit * SumOver([k \in 1 .. Len(settlements) |->
                        IF settlements[k].to = p THEN settlements[k].amount ELSE 0],
                     1 .. Len(settlements))

\* Twice the rounding that the settlements naming p may carry: half a cent each.
Slack2(settlements, p) == Unit * SettlementsOf(settlements, p)

\* C3, as claimed: with every settlement of get_settlements applied to the
\* balances of calculate_balances, every participant's balance is within 0.01
\* of zero.
C3_AllSettled ==
  Settlements.raised = "" =>
    \A p \in DOMAIN Balances.value :
      Abs(Adjusted(Balances.value, Settlements.value, p)) <= Threshold

\* C3, amended: with every settlement applied, (i) no balance has moved away
\* from zero nor past zero, up to the half cent of rounding of each settlement
\* that names the participant, and (ii) either every participant with a
\* negative balance or every participant with a positive balance is within
\* 0.01 of zero, up to that rounding.
C3_OneSideSettled ==
  Settlements.raised = "" =>
    LET b == Balances.value
        s == Settlements.value
        adj2(p) == 2 * Adjusted(b, s, p)
    IN /\ \A p \in DOMAIN b :
            IF b[p] >= 0
            THEN 0 - Slack2(s, p) <= adj2(p) /\ adj2(p) <= 2 * b[p] + Slack2(s, p)
            ELSE 2 * b[p] - Slack2(s, p) <= adj2(p) /\ adj2(p) <= Slack2(s, p)
       /\ \/ \A p \in DOMAIN b :
               b[p] < 0 => adj2(p) >= 0 - 2 * Threshold - Slack2(s, p)
          \/ \A p \in DOMAIN b :
               b[p] > 0 => adj2(p) <= 2 * Threshold + Slack2(s, p)

\* C3's case: get_settlements has returned for a ledger in which every expense
\* has a payer, a beneficiary and an amount above zero, and its settlements
\* leave a participant more than 0.01 from zero.
C3_Witness ==
  /\ ret.op = "get_settlements"
  /\ ret.val.raised = ""
  /\ \A i \in 1 .. Len(expenses) :
       /\ expenses[i].paid_by # <<>>
       /\ expenses[i].split_among # <<>>
       /\ expenses[i].amount > 0
  /\ \E p \in DOMAIN Balances.value :
       Abs(Adjusted(Balances.value, ret.val.value, p)) > Threshold

\* C4: no two expenses of the list share an identifier (the part of "unique
\* and never reused" that a state shows).
C4_UniqueIds ==
  \A i, j \in 1 .. Len(expenses) : i # j => expenses[i].id # expenses[j].id

\* seq with every occurrence of x left out.
Without(seq, x) == SelectSeq(seq, LAMBDA y : y # x)

\* C5: remove_participant of a name in the roster returns True, removes that
\* name and no other from the roster and from every expense's paid_by and
\* split_among, and keeps every expense, in order, with its other fields; of a
\* name not in the roster it returns False and changes nothing.
C5_RemoveParticipant ==
  [][\A name \in Names :
       RemoveParticipant(name) =>
         IF name \in Range(participants)
         THEN /\ ret'.val = TRUE
              /\ participants' = Without(participants, name)
              /\ Len(expenses') = Len(expenses)
              /\ \A i \in 1 .. Len(expenses) :
                   expenses'[i] =
                     [expenses[i] EXCEPT !.paid_by = Without(@, name),
                                         !.split_among = Without(@, name)]
         ELSE /\ ret'.val = FALSE
              /\ participants' = participants
              /\ expenses' = expenses]_vars

\* C5's case: remove_participant has returned True and left an expense with
\* no payer and no beneficiary in the list.
C5_Witness ==
  /\ ret.op = "remove_participant"
  /\ ret.val = TRUE
  /\ participants # <<>>
  /\ \E i \in 1 .. Len(expenses) :
       expenses[i].paid_by = <<>> /\ expenses[i].split_among = <<>>

\* A text with a character that is no whitespace.
NonBlank(text) == \E i \in 1 .. Len(text) : text[i] # " "

\* C6: add_participant returns True and appends the trimmed name at the end of
\* the roster iff the name is not blank and not in the roster; otherwise it
\* returns False and changes neither roster nor expenses; so the roster never
\* holds a name twice nor a blank name.
C6_AddParticipant ==
  /\ [](/\ \A i, j \in 1 .. Len(participants) :
             i # j => participants[i] # participants[j]
        /\ \A i \in 1 .. Len(participants) : NonBlank(participants[i]))
  /\ [][\A text \in NameTexts :
          AddParticipant(text) =>
            LET added == NonBlank(text) /\ Strip(text) \notin Range(participants)
            IN /\ ret'.val = added
               /\ participants' = IF added THEN Append(participants, Strip(text))
                                  ELSE participants
               /\ expenses' = expenses]_vars

\* C6's case: add_participant has refused a name while the roster holds both
\* names that can be typed.
C6_Witness ==
  /\ ret.op = "add_participant"
  /\ ret.val = FALSE
  /\ Len(participants) = Cardinality(Names)

\* seq with its i-th element left out.
DropAt(seq, i) == SubSeq(seq, 1, i - 1) \o SubSeq(seq, i + 1, Len(seq))

\* C7: remove_expense deletes the one expense that has the identifier and
\* nothing else (the others keep their order and fields, the roster is
\* unchanged); with no such expense it changes nothing.
C7_RemoveOne ==
  [][\A expense_id \in ExpenseIds :
       RemoveExpense(expense_id) =>
         /\ participants' = participants
         /\ IF \E i \in 1 .. Len(expenses) : expenses[i].id = expense_id
            THEN \E i \in 1 .. Len(expenses) :
                   expenses[i].id = expense_id /\ expenses' = DropAt(expenses, i)
            ELSE expenses' = expenses]_vars

\* The balance of p as the specification defines it: its shares of what it paid
\* less its shares of what was split among it.
BalanceOf(p) ==
  SumOver([i \in 1 .. Len(expenses) |->
             (IF p \in Range(expenses[i].paid_by)
              THEN Share(expenses[i].amount, Len(expenses[i].paid_by)) ELSE 0)
             - (IF p \in Range(expenses[i].split_among)
                THEN Share(expenses[i].amount, Len(expenses[i].split_among)) ELSE 0)],
          1 .. Len(expenses))

\* The returned mapping has the roster as its keys and BalanceOf as its values.
BalancesAsDefined ==
  /\ DOMAIN Balances.value = Range(participants)
  /\ \A p \in Range(participants) : Balances.value[p] = BalanceOf(p)

\* C8: calculate_balances returns a mapping whose keys are the roster and whose
\* values are the defined balances (so 0 for a participant in no expense).
C8_BalanceFormula == Balances.raised = "" /\ BalancesAsDefined

C10_PositiveAmounts == \A i \in 1 .. Len(expenses) : expenses[i].amount > 0

\* The summary of the present ledger, or the exception raised.
Summary == get_summary(participants, expenses)

\* The expenses of the list that have the category.
OfCategory(category) == {i \in 1 .. Len(expenses) : expenses[i].category = category}

\* The amounts of the expenses, by their position in the list.
Amounts == [i \in 1 .. Len(expenses) |-> expenses[i].amount]

\* C11: get_summary never faults; total_expenses is the sum of the amounts,
\* num_expenses the length of the list, cost_per_person the total divided by
\* the number of participants (0 for an empty roster), category_totals has one
\* entry for each category that occurs, with the sum of its expenses' amounts,
\* and the category totals add up to total_expenses.
C11_Summary ==
  /\ Summary.raised = ""
  /\ LET s == Summary.value
         totals == s.category_totals
     IN /\ s.total_expenses = SumOver(Amounts, DOMAIN Amounts)
        /\ s.num_expenses = Len(expenses)
        /\ IF participants = <<>> THEN s.cost_per_person = 0
           ELSE s.cost_per_person * Len(participants) = s.total_expenses * Unit
        /\ {totals[k].category : k \in 1 .. Len(totals)}
             = {expenses[i].category : i \in 1 .. Len(expenses)}
        /\ \A k, l \in 1 .. Len(totals) :
             totals[k].category = totals[l].category => k = l
        /\ \A k \in 1 .. Len(totals) :
             totals[k].total = SumOver(Amounts, OfCategory(totals[k].category))
        /\ SumOver([k \in 1 .. Len(totals) |-> totals[k].total], 1 .. Len(totals))
             = s.total_expenses

\* C11's case: get_summary has returned for a roster of several participants
\* and two expenses of one category, neither of amount zero.
C11_Witness ==
  /\ ret.op = "get_summary"
  /\ ret.val.raised = ""
  /\ Len(participants) > 1
  /\ Len(expenses) = 2
  /\ expenses[1].category = expenses[2].category
  /\ expenses[1].amount # 0 /\ expenses[2].amount # 0
  /\ Len(ret.val.value.category_totals) = 1

\* C12: every name in an expense's paid_by or split_among is in the roster, so
\* neither calculate_balances nor get_settlements looks up a name that the
\* balance mapping does not have.
C12_NamesInRoster ==
  /\ \A i \in 1 .. Len(expenses) :
       /\ Range(expenses[i].paid_by) \subseteq Range(participants)
       /\ Range(expenses[i].split_among) \subseteq Range(participants)
  /\ Balances.raised # "KeyError"
  /\ Settlements.raised # "KeyError"

\* C12's case: remove_participant has taken the only payer out of an expense
\* that still has a beneficiary.
C12_Witness ==
  /\ ret.op = "remove_participant"
  /\ ret.val = TRUE
  /\ \E i \in 1 .. Len(expenses) :
       expenses[i].paid_by = <<>> /\ expenses[i].split_among # <<>>

\* The place of p in the roster.
Pos(p) == CHOOSE i \in 1 .. Len(participants) : participants[i] = p

\* C13: every settlement is from a participant whose balance is below -0.01 to
\* a participant whose balance is above 0.01; the settlements of a debtor
\* earlier in the roster all come before those of a later debtor, and those of
\* one debtor are in the roster order of their creditors.
C13_RosterOrder ==
  Settlements.raised = "" =>
    LET s == Settlements.value
        b == Balances.value
    IN /\ \A k \in 1 .. Len(s) :
            /\ s[k].from \in DOMAIN b /\ b[s[k].from] < 0 - Threshold
            /\ s[k].to \in DOMAIN b /\ b[s[k].to] > Threshold
       /\ \A k, l \in 1 .. Len(s) :
            k < l =>
              /\ Pos(s[k].from) <= Pos(s[l].from)
              /\ s[k].from = s[l].from => Pos(s[k].to) < Pos(s[l].to)

\* C13's case: get_settlements has returned two settlements of one debtor,
\* the smaller amount first.
C13_Witness ==
  /\ ret.op = "get_settlements"
  /\ ret.val.raised = ""
  /\ Len(ret.val.value) = 2
  /\ ret.val.value[1].from = ret.val.value[2].from
  /\ ret.val.value[1].amount < ret.val.value[2].amount

\* What the settlements pay to p, in balance units.
PaidTo(settlements, p) ==
  Unit * SumOver([k \in 1 .. Len(settlements) |->
                    IF settlements[k].to = p THEN settlements[k].amount ELSE 0],
                 1 .. Len(settlements))

\* What the settlements have p pay, in balance units.
PaidBy(settlements, p) ==
  Unit * SumOver([k \in 1 .. Len(settlements) |->
                    IF settlements[k].from = p THEN settlements[k].amount ELSE 0],
                 1 .. Len(settlements))

DebtorSet(balances) == {p \in DOMAIN balances : balances[p] < 0 - Threshold}

\* The participants whose balance is above 0.01.
CreditorSet(balances) == {p \in DOMAIN balances : balances[p] > Threshold}

\* C15: get_settlements returns no settlement when there is no debtor or no
\* creditor, never two settlements of the same debtor to the same creditor,
\* and otherwise at most (debtors + creditors - 1) settlements.
C15_SweepBound ==
  LET settlements == Settlements IN
  settlements.raised = "" =>
    LET s == settlements.value
        balances == Balances.value
        debtors == Cardinality(DebtorSet(balances))
        creditors == Cardinality(CreditorSet(balances))
    IN /\ (debtors = 0 \/ creditors = 0) => s = <<>>
       /\ \A k, l \in 1 .. Len(s) :
            (s[k].from = s[l].from /\ s[k].to = s[l].to) => k = l
       /\ (debtors # 0 /\ creditors # 0) => Len(s) <= debtors + creditors - 1

\* C15's case: get_settlements has returned three settlements for two debtors
\* and two creditors: as many as the bound allows, and fewer than the pairs.
C15_Witness ==
  /\ ret.op = "get_settlements"
  /\ ret.val.raised = ""
  /\ Len(ret.val.value) = 3
  /\ Cardinality(DebtorSet(Balances.value)) = 2
  /\ Cardinality(CreditorSet(Balances.value)) = 2

====
